---- MODULE Spec2Model ----
(***************************************************************************)
(* Model of blessed_minesweeper (src/main.py): the Minefield grid, the     *)
(* Cell state machine with its recursive reveal (flood and chord), and the *)
(* game loop of main().                                                    *)
(*                                                                         *)
(* Cell.reveal is recursive; the model runs it as an explicit call stack   *)
(* of frames, one step per frame entry and one step per recursive call.    *)
(* The program is single-threaded, so the step granularity is a choice of  *)
(* the model and not of the code.                                          *)
(***************************************************************************)
EXTENDS Integers, Sequences, FiniteSets, TLC

\* Bounds of the model: the grid is at most MaxW x MaxH, holds at most MaxMines
\* mines, and the player keeps at most MaxFlags cells flagged at a time.
MaxW == 3
MaxH == 2
MaxMines == 1
MaxFlags == 2

\* Bound of the model: main() asks for at most MaxPlaced mines.
MaxPlaced == 2

VARIABLES
    width,            \* Minefield.size.width
    height,           \* Minefield.size.height
    num_mines,        \* Minefield.num_mines
    cells,            \* Minefield.cells: position -> Cell fields
    cursor_position,  \* Minefield.cursor_position
    stack,            \* active Cell.reveal frames, innermost first
    mode,             \* the Minefield call in progress: "idle", "reveal", "reveal_all"
    ra,               \* Minefield.reveal_all: number of cells already visited by its loops
    game_over,        \* Minesweeper.game_over
    victory,          \* Minesweeper.victory
    pc,               \* position in main(): "api" when the Minefield is driven directly
    op,               \* history: the last top-level operation [name, pos, repeat];
                      \* repeat: the operation before it was the same one (see Op)
    pre,              \* history: cells as they were when that operation started
    result,           \* history: value returned by the last all_cells_revealed_except_mines()
    entered,          \* history: per cell, how often Cell.reveal passed the flagged guard
                      \* (line 47) since the last top-level operation started
    mine_positions    \* Minefield.__place_mines: the list being filled

vars == <<width, height, num_mines, cells, cursor_position, stack, mode, ra,
          game_over, victory, pc, op, pre, result, entered, mine_positions>>

----------------------------------------------------------------------------
\* SYMBOLS (src/main.py:11-16) and str() of a mine count.

SYM_UNREVEALED == "%"
SYM_EMPTY == " "
SYM_MINE == "*"
SYM_FLAGGED == "X"

Str(n) ==
    CASE n = 1 -> "1" [] n = 2 -> "2" [] n = 3 -> "3" [] n = 4 -> "4"
      [] n = 5 -> "5" [] n = 6 -> "6" [] n = 7 -> "7" [] n = 8 -> "8"
      [] OTHER -> "0"

----------------------------------------------------------------------------
\* Positions and neighbours.

Positions(w, h) == (0 .. w - 1) \X (0 .. h - 1)

Pos == Positions(width, height)

NoPos == <<-1, -1>>

Directions ==
    << <<-1, -1>>, <<-1, 0>>, <<-1, 1>>, <<0, -1>>,
       <<0, 1>>, <<1, -1>>, <<1, 0>>, <<1, 1>> >>

InBounds(p) == 0 <= p[1] /\ p[1] < width /\ 0 <= p[2] /\ p[2] < height

\* Cell.neighbours: the in-bounds neighbours, in the order of `directions`.
Neighbours(p) ==
    SelectSeq([i \in 1 .. 8 |-> <<p[1] + Directions[i][1], p[2] + Directions[i][2]>>],
              InBounds)

NeighbourSet(p) == LET ns == Neighbours(p) IN {ns[i] : i \in 1 .. Len(ns)}

\* sum(neighbour.is_mine for neighbour in self.neighbours())
MineCount(cs, p) == Cardinality({n \in NeighbourSet(p) : cs[n].is_mine})

\* sum(neighbour.is_flagged for neighbour in self.neighbours())
FlaggedCount(cs, p) == Cardinality({n \in NeighbourSet(p) : cs[n].is_flagged})

----------------------------------------------------------------------------
\* Cell

NewCell(plant_mine) ==
    [is_mine |-> plant_mine, is_flagged |-> FALSE, is_revealed |-> FALSE,
     clicked_auto_reveal |-> FALSE, symbol |-> SYM_UNREVEALED]

\* Variant of RevealGuard: reveal does not look at the flag.
RevealGuardNever(c) == FALSE

\* Cell.reveal, line 44: the guard that makes reveal return at once.
RevealGuard(c) == c.is_flagged

\* Variant of ChordFires: the guard reads clicked_auto_reveal without the `not`.
ChordFiresOnceClicked(cs, p) ==
    MineCount(cs, p) = FlaggedCount(cs, p) /\ cs[p].clicked_auto_reveal

\* Variant of ChordFires: the chord fires whatever the number of flags.
ChordFiresAnyCount(cs, p) == ~cs[p].clicked_auto_reveal

\* Variant of ChordFires: the chord fires again on a cell that has fired.
ChordFiresAgain(cs, p) == MineCount(cs, p) = FlaggedCount(cs, p)

\* Cell.reveal, line 54: the chord fires.
ChordFires(cs, p) ==
    MineCount(cs, p) = FlaggedCount(cs, p) /\ ~cs[p].clicked_auto_reveal

\* Cell.reveal, line 57: the chord loop calls neighbour.reveal().
ChordCalls(cs, n, visited) == ~cs[n].is_flagged /\ n \notin visited

\* Cell.reveal, line 69: the flood loop calls neighbour.reveal().
FloodCalls(cs, n, visited) == n \notin visited

\* Cell.reveal, lines 61-66: first reveal of the cell at p.
FirstReveal(cs, p) ==
    [cs EXCEPT ![p].is_revealed = TRUE,
               ![p].symbol = IF cs[p].is_mine THEN SYM_MINE
                             ELSE IF MineCount(cs, p) > 0 THEN Str(MineCount(cs, p))
                             ELSE SYM_EMPTY]

\* Variant of Floods: the flood does not depend on the mine count.
FloodsAnyCount(cs, p) == ~cs[p].is_mine

\* Variant of Floods: a mine without mine neighbours floods too.
FloodsFromMine(cs, p) == MineCount(cs, p) = 0

\* Cell.reveal, line 67: the first reveal goes on to flood.
Floods(cs, p) == ~cs[p].is_mine /\ MineCount(cs, p) = 0

\* Variant of FlagCell: a flag put on a revealed cell covers it again.
FlagCellCovers(c) ==
    IF c.is_flagged
    THEN [c EXCEPT !.is_flagged = FALSE, !.symbol = SYM_UNREVEALED]
    ELSE [c EXCEPT !.is_flagged = TRUE, !.is_revealed = FALSE, !.symbol = SYM_FLAGGED]

\* Variant of FlagCell: the flag toggles on a revealed cell too.
FlagCellAlways(c) ==
    IF c.is_flagged
    THEN [c EXCEPT !.is_flagged = FALSE, !.symbol = SYM_UNREVEALED]
    ELSE [c EXCEPT !.is_flagged = TRUE, !.symbol = SYM_FLAGGED]

\* Variant of FlagCell: removing the flag leaves the symbol as it is.
FlagCellKeepsSymbol(c) ==
    IF ~c.is_revealed
    THEN IF c.is_flagged
         THEN [c EXCEPT !.is_flagged = FALSE]
         ELSE [c EXCEPT !.is_flagged = TRUE, !.symbol = SYM_FLAGGED]
    ELSE c

\* Cell.flag
FlagCell(c) ==
    IF ~c.is_revealed
    THEN IF c.is_flagged
         THEN [c EXCEPT !.is_flagged = FALSE, !.symbol = SYM_UNREVEALED]
         ELSE [c EXCEPT !.is_flagged = TRUE, !.symbol = SYM_FLAGGED]
    ELSE c

\* A call cell.reveal() with visited=None: lines 41-42 make a fresh empty set.
NewFrame(p) == [self |-> p, visited |-> {}, at |-> "entry", i |-> 0]

\* A Cell.reveal frame returns; the top-level Minefield.reveal returns with its
\* only frame.
Return ==
    /\ stack' = Tail(stack)
    /\ mode' = IF mode = "reveal" /\ Len(stack) = 1 THEN "idle" ELSE mode

\* Cell.reveal, lines 41-67: from the call to the first loop or to the return.
RevealEntry ==
    /\ stack # <<>>
    /\ Head(stack).at = "entry"
    /\ LET f == Head(stack)
           p == f.self
           visited == f.visited \cup {p}
       IN  IF RevealGuard(cells[p])
           THEN Return /\ UNCHANGED cells
           ELSE IF cells[p].is_revealed
           THEN IF ChordFires(cells, p)
                THEN /\ cells' = [cells EXCEPT ![p].clicked_auto_reveal = TRUE]
                     /\ stack' = <<[f EXCEPT !.visited = visited, !.at = "chord", !.i = 1]>>
                                 \o Tail(stack)
                     /\ UNCHANGED mode
                ELSE Return /\ UNCHANGED cells
           ELSE /\ cells' = FirstReveal(cells, p)
                /\ IF Floods(cells, p)
                   THEN /\ stack' = <<[f EXCEPT !.visited = visited, !.at = "flood", !.i = 1]>>
                                    \o Tail(stack)
                        /\ UNCHANGED mode
                   ELSE Return
    /\ entered' = IF RevealGuard(cells[Head(stack).self]) THEN entered
                  ELSE [entered EXCEPT ![Head(stack).self] = @ + 1]
    /\ UNCHANGED <<width, height, num_mines, cursor_position, ra, game_over, victory,
                   pc, op, pre, result, mine_positions>>

\* The condition under which the neighbour loop of a frame at `kind` calls
\* neighbour.reveal(): line 57 in the chord loop, line 69 in the flood loop.
Calls(kind, cs, n, visited) ==
    IF kind = "chord" THEN ChordCalls(cs, n, visited) ELSE FloodCalls(cs, n, visited)

\* The first index from i on at which a neighbour loop calls neighbour.reveal(),
\* or Len(ns) + 1 when the loop ends without another call.
RECURSIVE NextCall(_, _, _, _, _)
NextCall(kind, cs, ns, visited, i) ==
    IF i > Len(ns) \/ Calls(kind, cs, ns[i], visited) THEN i
    ELSE NextCall(kind, cs, ns, visited, i + 1)

\* A neighbour loop of Cell.reveal (lines 56-58 or 68-70) runs up to its next
\* call neighbour.reveal(), or to its end and the return.
LoopIter(kind) ==
    /\ stack # <<>>
    /\ Head(stack).at = kind
    /\ LET f == Head(stack)
           ns == Neighbours(f.self)
           j == NextCall(kind, cells, ns, f.visited, f.i)
       IN  IF j > Len(ns)
           THEN Return
           ELSE /\ stack' = <<NewFrame(ns[j]), [f EXCEPT !.i = j + 1]>> \o Tail(stack)
                /\ UNCHANGED mode
    /\ UNCHANGED <<width, height, num_mines, cells, cursor_position, ra, game_over,
                   victory, pc, op, pre, result, entered, mine_positions>>

RevealChordIter == LoopIter("chord")

RevealFloodIter == LoopIter("flood")

----------------------------------------------------------------------------
\* Minefield

\* Minefield.__init__: the cells of a grid whose mines are at `mines`.
NewCells(w, h, mines) == [p \in Positions(w, h) |-> NewCell(p \in mines)]

\* The k-th cell (from 0) of the loops `for x ... for y ...`.
CellAt(k) == <<k \div height, k % height>>

\* Variant of StillHidden: a hidden mine stops the scan too.
StillHiddenAny(c) == ~c.is_revealed

\* Minefield.all_cells_revealed_except_mines, line 147: the cell that makes the
\* scan return False.
StillHidden(c) == ~c.is_revealed /\ ~c.is_mine

\* Minefield.all_cells_revealed_except_mines: the scan from the k-th cell on.
RECURSIVE ScanFrom(_, _)
ScanFrom(cs, k) ==
    IF k >= width * height THEN TRUE
    ELSE IF StillHidden(cs[CellAt(k)]) THEN FALSE
    ELSE ScanFrom(cs, k + 1)

all_cells_revealed_except_mines(cs) == ScanFrom(cs, 0)

\* Minefield.move_cursor
Clamp(v, lo, hi) == IF v > hi THEN hi ELSE IF v < lo THEN lo ELSE v

MovedCursor(c, dx, dy) ==
    <<Clamp(c[1] + dx, 0, width - 1), Clamp(c[2] + dy, 0, height - 1)>>

Idle == mode = "idle" /\ stack = <<>>

\* History: the record of a top-level operation that starts now. A flag repeats
\* when the operation before it was the same flag; a reveal repeats when the
\* operation before it was the same reveal, called on an already-revealed cell.
Op(name, p) ==
    [name |-> name, pos |-> p,
     repeat |-> /\ op.name = name /\ op.pos = p
                /\ \/ name = "flag"
                   \/ name = "reveal" /\ pre[p].is_revealed]

\* History: no cell entered yet.
NoEntries == [p \in Pos |-> 0]

\* Minefield.reveal(position), called on an in-bounds position.
Reveal(p) ==
    /\ Idle /\ pc = "api"
    /\ mode' = "reveal"
    /\ stack' = <<NewFrame(p)>>
    /\ op' = Op("reveal", p)
    /\ pre' = cells
    /\ entered' = NoEntries
    /\ UNCHANGED <<width, height, num_mines, cells, cursor_position, ra, game_over,
                   victory, pc, result, mine_positions>>

\* Minefield.reveal_all is called.
RevealAll ==
    /\ Idle /\ pc = "api"
    /\ mode' = "reveal_all"
    /\ ra' = 0
    /\ op' = Op("reveal_all", NoPos)
    /\ pre' = cells
    /\ entered' = NoEntries
    /\ UNCHANGED <<width, height, num_mines, cells, cursor_position, stack, game_over,
                   victory, pc, result, mine_positions>>

\* Minefield.reveal_all, lines 135-138: the next cell.reveal(), or the return.
RevealAllIter ==
    /\ mode = "reveal_all" /\ stack = <<>>
    /\ IF ra < width * height
       THEN /\ stack' = <<NewFrame(CellAt(ra))>>
            /\ ra' = ra + 1
            /\ UNCHANGED mode
       ELSE /\ mode' = "idle"
            /\ UNCHANGED <<stack, ra>>
    /\ UNCHANGED <<width, height, num_mines, cells, cursor_position, game_over,
                   victory, pc, op, pre, result, entered, mine_positions>>

\* The player's flag at p keeps the number of flagged cells within MaxFlags.
FlagAllowed(p) ==
    cells[p].is_flagged \/ cells[p].is_revealed
        \/ Cardinality({q \in Pos : cells[q].is_flagged}) < MaxFlags

\* Minefield.flag(position), called on an in-bounds position.
Flag(p) ==
    /\ Idle /\ pc = "api"
    /\ FlagAllowed(p)
    /\ cells' = [cells EXCEPT ![p] = FlagCell(@)]
    /\ op' = Op("flag", p)
    /\ pre' = cells
    /\ entered' = NoEntries
    /\ UNCHANGED <<width, height, num_mines, cursor_position, stack, mode, ra,
                   game_over, victory, pc, result, mine_positions>>

\* Minefield.all_cells_revealed_except_mines() is called.
Query ==
    /\ Idle /\ pc = "api"
    /\ result' = all_cells_revealed_except_mines(cells)
    /\ op' = Op("query", NoPos)
    /\ pre' = cells
    /\ entered' = NoEntries
    /\ UNCHANGED <<width, height, num_mines, cells, cursor_position, stack, mode, ra,
                   game_over, victory, pc, mine_positions>>

----------------------------------------------------------------------------
\* The Minefield driven through its interface.

Init ==
    /\ width \in 1 .. MaxW
    /\ height \in 1 .. MaxH
    /\ \E mines \in SUBSET Positions(width, height) :
          /\ Cardinality(mines) <= MaxMines
          /\ num_mines = Cardinality(mines)
          /\ cells = NewCells(width, height, mines)
    /\ cursor_position = <<0, 0>>
    /\ stack = <<>>
    /\ mode = "idle"
    /\ ra = 0
    /\ game_over = FALSE
    /\ victory = FALSE
    /\ pc = "api"
    /\ op = [name |-> "init", pos |-> NoPos, repeat |-> FALSE]
    /\ pre = cells
    /\ result = FALSE
    /\ entered = [p \in Positions(width, height) |-> 0]
    /\ mine_positions = <<>>

Next ==
    \/ \E p \in Pos : Reveal(p)
    \/ \E p \in Pos : Flag(p)
    \/ RevealAll
    \/ Query
    \/ RevealEntry
    \/ RevealChordIter
    \/ RevealFloodIter
    \/ RevealAllIter

Spec == Init /\ [][Next]_vars

----------------------------------------------------------------------------
\* Minefield.__init__ and __place_mines, step by step.

Range(seq) == {seq[i] : i \in 1 .. Len(seq)}

\* Variant of Accepts: the sampled position is appended without the test.
AcceptsAny(new_mine_position, positions) == TRUE

\* Minefield.__place_mines, line 126: the sampled position is new.
Accepts(new_mine_position, positions) == new_mine_position \notin Range(positions)

\* Minefield.__place_mines, line 121: the loop goes on.
Placing == Len(mine_positions) < num_mines

\* Minefield.__place_mines, lines 121-127: one round of the loop, with a
\* position drawn by random.randint.
PlaceMine ==
    /\ pc = "place"
    /\ Placing
    /\ \E new_mine_position \in Pos :
          mine_positions' = IF Accepts(new_mine_position, mine_positions)
                            THEN Append(mine_positions, new_mine_position)
                            ELSE mine_positions
    /\ UNCHANGED <<width, height, num_mines, cells, cursor_position, stack, mode, ra,
                   game_over, victory, pc, op, pre, result, entered>>

\* Minefield.__init__, lines 93-99: __place_mines has returned; the cells are
\* made, with a mine where the position is in the list.
Build ==
    /\ pc = "place"
    /\ ~Placing
    /\ cells' = NewCells(width, height, Range(mine_positions))
    /\ pre' = cells'
    /\ mine_positions' = <<>>
    /\ pc' = "start"
    /\ UNCHANGED <<width, height, num_mines, cursor_position, stack, mode, ra,
                   game_over, victory, op, result, entered>>

----------------------------------------------------------------------------
\* main(): the game played through the cursor.

\* main, lines 205-212: the hidden non-mine cells without mine neighbours.
EmptyCells ==
    {p \in Pos : ~cells[p].is_revealed /\ ~cells[p].is_mine /\ MineCount(cells, p) = 0}

\* main, lines 214-219: reveal a random empty cell, or put the cursor in the
\* middle of the grid.
MainStart ==
    /\ pc = "start"
    /\ IF EmptyCells # {}
       THEN \E chosen_cell \in EmptyCells :
               /\ stack' = <<NewFrame(chosen_cell)>>
               /\ mode' = "reveal"
               /\ op' = Op("first_reveal", chosen_cell)
               /\ pre' = cells
               /\ pc' = "chosen"
               /\ entered' = NoEntries
               /\ UNCHANGED cursor_position
       ELSE /\ cursor_position' = <<width \div 2, height \div 2>>
            /\ pc' = "loop"
            /\ UNCHANGED <<stack, mode, op, pre, entered>>
    /\ UNCHANGED <<width, height, num_mines, cells, ra, game_over, victory, result, mine_positions>>

\* main, line 217: chosen_cell.reveal() has returned.
MainChosen ==
    /\ pc = "chosen" /\ Idle
    /\ cursor_position' = op.pos
    /\ pc' = "loop"
    /\ UNCHANGED <<width, height, num_mines, cells, stack, mode, ra, game_over,
                   victory, op, pre, result, entered, mine_positions>>

\* main, line 224: the loop takes another input.
Playing == pc = "loop" /\ Idle /\ ~game_over /\ ~victory

\* The (dx, dy) of the eight MOVE_ actions, lines 235-242.
Moves == {<<dx, dy>> \in {-1, 0, 1} \X {-1, 0, 1} : <<dx, dy>> # <<0, 0>>}

\* main, lines 235-242: a MOVE_ action.
GameMove(dx, dy) ==
    /\ Playing
    /\ cursor_position' = MovedCursor(cursor_position, dx, dy)
    /\ UNCHANGED <<width, height, num_mines, cells, stack, mode, ra, game_over,
                   victory, pc, op, pre, result, entered, mine_positions>>

\* main, line 243: FLAG.
GameFlag ==
    /\ Playing
    /\ FlagAllowed(cursor_position)
    /\ cells' = [cells EXCEPT ![cursor_position] = FlagCell(@)]
    /\ op' = Op("flag", cursor_position)
    /\ pre' = cells
    /\ entered' = NoEntries
    /\ UNCHANGED <<width, height, num_mines, cursor_position, stack, mode, ra,
                   game_over, victory, pc, result, mine_positions>>

\* main, line 245: REVEAL calls Minefield.reveal at the cursor.
GameReveal ==
    /\ Playing
    /\ mode' = "reveal"
    /\ stack' = <<NewFrame(cursor_position)>>
    /\ op' = Op("reveal", cursor_position)
    /\ pre' = cells
    /\ pc' = "revealed"
    /\ entered' = NoEntries
    /\ UNCHANGED <<width, height, num_mines, cells, cursor_position, ra, game_over,
                   victory, result, mine_positions>>

\* main, line 249: the loss test after a REVEAL.
Detonated(c) == c.is_mine /\ c.is_revealed

\* main, lines 246-252: the reveal has returned; loss and win are tested.
GameAfterReveal ==
    /\ pc = "revealed" /\ Idle
    /\ IF Detonated(cells[cursor_position])
       THEN game_over' = TRUE /\ UNCHANGED victory
       ELSE IF all_cells_revealed_except_mines(cells)
       THEN victory' = TRUE /\ UNCHANGED game_over
       ELSE UNCHANGED <<game_over, victory>>
    /\ pc' = "loop"
    /\ UNCHANGED <<width, height, num_mines, cells, cursor_position, stack, mode, ra,
                   op, pre, result, entered, mine_positions>>

\* main, lines 255-272: the loop has ended; reveal_all is called.
GameEnd ==
    /\ pc = "loop" /\ Idle /\ (game_over \/ victory)
    /\ mode' = "reveal_all"
    /\ ra' = 0
    /\ op' = Op("reveal_all", NoPos)
    /\ pre' = cells
    /\ pc' = "end"
    /\ entered' = NoEntries
    /\ UNCHANGED <<width, height, num_mines, cells, cursor_position, stack, game_over,
                   victory, result, mine_positions>>

\* main, lines 258-277: reveal_all has returned; the board is printed.
GameDone ==
    /\ pc = "end" /\ Idle
    /\ pc' = "done"
    /\ UNCHANGED <<width, height, num_mines, cells, cursor_position, stack, mode, ra,
                   game_over, victory, op, pre, result, entered, mine_positions>>

\* main, lines 198-200: Minefield(...) is called; __init__ has made the empty
\* cell array (line 90) and is about to place the mines.
InitGame ==
    /\ width \in 1 .. MaxW
    /\ height \in 1 .. MaxH
    /\ num_mines \in 0 .. MaxPlaced
    /\ mine_positions = <<>>
    /\ cells = <<>>
    /\ cursor_position = <<0, 0>>
    /\ stack = <<>>
    /\ mode = "idle"
    /\ ra = 0
    /\ game_over = FALSE
    /\ victory = FALSE
    /\ pc = "place"
    /\ op = [name |-> "init", pos |-> NoPos, repeat |-> FALSE]
    /\ pre = <<>>
    /\ result = FALSE
    /\ entered = [p \in Positions(width, height) |-> 0]

NextGame ==
    \/ PlaceMine
    \/ Build
    \/ MainStart
    \/ MainChosen
    \/ \E m \in Moves : GameMove(m[1], m[2])
    \/ GameFlag
    \/ GameReveal
    \/ GameAfterReveal
    \/ GameEnd
    \/ GameDone
    \/ RevealEntry
    \/ RevealChordIter
    \/ RevealFloodIter
    \/ RevealAllIter

SpecGame == InitGame /\ [][NextGame]_vars

\* The constructor alone. It is sequential code: a step it can take, it takes.
NextBuild == PlaceMine \/ Build

SpecBuild == InitGame /\ [][NextBuild]_vars /\ WF_vars(PlaceMine) /\ WF_vars(Build)

----------------------------------------------------------------------------
\* Vocabulary of the properties.

Revealed(cs) == {p \in Pos : cs[p].is_revealed}

Flagged(cs) == {p \in Pos : cs[p].is_flagged}

Mines == {p \in Pos : cells[p].is_mine}

\* Every non-mine cell is revealed.
AllNonMinesRevealed(cs) == \A p \in Pos : ~cs[p].is_mine => cs[p].is_revealed

\* A top-level Minefield.reveal(p) has returned and nothing was called since.
Returned(name) == Idle /\ op.name = name

\* The board as constructed: nothing revealed, nothing flagged.
Fresh(cs) == Revealed(cs) = {} /\ Flagged(cs) = {}

\* The smallest set containing S that holds every neighbour of its cells that
\* are no mines and have no mine neighbour.
RECURSIVE FloodClosure(_, _)
FloodClosure(cs, S) ==
    LET T == S \cup {n \in Pos : \E q \in S :
                        /\ ~cs[q].is_mine /\ MineCount(cs, q) = 0
                        /\ n \in NeighbourSet(q)}
    IN  IF T = S THEN S ELSE FloodClosure(cs, T)

----------------------------------------------------------------------------
\* C1: in every state reached by flag, reveal and reveal_all calls on in-bounds
\* coordinates (the states inside a running call included), no cell is both
\* flagged and revealed.
C1_NeverFlaggedAndRevealed ==
    \A p \in Pos : ~(cells[p].is_flagged /\ cells[p].is_revealed)

\* A reveal_all has run over a board that kept a flagged cell beside revealed ones.
C1_Witness ==
    /\ Returned("reveal_all")
    /\ Flagged(cells) # {}
    /\ Revealed(cells) # {}
    /\ Flagged(pre) # {}

\* C2: when Minefield.reveal(pos) returns from a call on an already-revealed
\* cell whose flagged-neighbour count equalled its mine-neighbour count, every
\* unflagged neighbour of that cell is revealed, whether or not the cell's
\* chord had fired before.
C2_ChordRevealsUnflaggedNeighbours ==
    (/\ Returned("reveal")
     /\ pre[op.pos].is_revealed
     /\ MineCount(pre, op.pos) = FlaggedCount(pre, op.pos))
    => \A n \in NeighbourSet(op.pos) : ~cells[n].is_flagged => cells[n].is_revealed

\* The chord of a numbered cell with one flagged neighbour has revealed a
\* neighbour that was hidden.
C2_Witness ==
    /\ Returned("reveal")
    /\ pre[op.pos].is_revealed
    /\ MineCount(pre, op.pos) = 1
    /\ FlaggedCount(pre, op.pos) = 1
    /\ \E n \in NeighbourSet(op.pos) : ~pre[n].is_revealed /\ cells[n].is_revealed

\* C3: on a fresh board, Minefield.reveal(pos) on a non-mine cell without mine
\* neighbours leaves revealed exactly the flood closure of pos; no mine is
\* revealed, and when the closure covers all non-mine cells the win predicate
\* is true.
C3_FloodRevealsClosure ==
    (/\ Returned("reveal")
     /\ Fresh(pre)
     /\ ~pre[op.pos].is_mine
     /\ MineCount(pre, op.pos) = 0)
    => LET R == FloodClosure(pre, {op.pos})
       IN  /\ Revealed(cells) = R
           /\ R \cap Mines = {}
           /\ (Pos \ Mines) \subseteq R => all_cells_revealed_except_mines(cells)

\* A flood on a fresh board with a mine revealed three cells or more and
\* stopped short of a non-mine cell.
C3_Witness ==
    /\ Returned("reveal")
    /\ Fresh(pre)
    /\ ~pre[op.pos].is_mine
    /\ MineCount(pre, op.pos) = 0
    /\ Mines # {}
    /\ Cardinality(Revealed(cells)) >= 3
    /\ ~AllNonMinesRevealed(cells)

\* C4: every top-level Minefield.reveal(pos) terminates: while the call runs
\* it has a frame to step (it is never stuck), and each of its steps lowers
\* Rank, a natural number, so the call returns within Rank steps.
FrameWeight(f) ==
    IF f.at = "entry" THEN 1 ELSE 2 * (Len(Neighbours(f.self)) - f.i + 1) + 1

RECURSIVE StackWeight(_)
StackWeight(st) == IF st = <<>> THEN 0 ELSE FrameWeight(Head(st)) + StackWeight(Tail(st))

Rank ==
    17 * (Cardinality(Pos \ Revealed(cells))
          + Cardinality({p \in Pos : ~cells[p].clicked_auto_reveal}))
    + StackWeight(stack)

C4_RevealTerminates ==
    [][/\ mode = "reveal" => Rank' < Rank /\ Rank' >= 0
       /\ mode' = "reveal" => stack' # <<>>]_vars

\* A reveal has returned after a cascade over three cells or more, one of them
\* revealed through a chord.
C4_Witness ==
    /\ Returned("reveal")
    /\ Cardinality(Revealed(cells) \ Revealed(pre)) >= 3
    /\ \E p \in Pos : cells[p].clicked_auto_reveal /\ ~pre[p].clicked_auto_reveal

\* C5: after Minefield.reveal_all() returns, every cell of the grid is
\* revealed, also when cells were flagged at the call.
C5_RevealAllRevealsEveryCell ==
    Returned("reveal_all") => \A p \in Pos : cells[p].is_revealed

\* C6: in the game loop, when a REVEAL has made a mine cell revealed, be it the
\* cell at the cursor or one reached by the flood or chord cascade, the game
\* ends in loss: game_over is set and victory is not.
C6_RevealedMineEndsGame ==
    (/\ pc = "loop"
     /\ op.name = "reveal"
     /\ \E p \in Mines : cells[p].is_revealed /\ ~pre[p].is_revealed)
    => game_over /\ ~victory

\* C7: all_cells_revealed_except_mines() returns true exactly when every
\* non-mine cell is revealed, whatever the state of the mine cells, and the
\* query leaves the grid as it was.
C7_WinPredicate ==
    Returned("query")
    => /\ result = AllNonMinesRevealed(cells)
       /\ cells = pre

\* The query answered true on a board whose mine is still hidden and answered
\* on a board that has a flagged cell.
C7_Witness ==
    /\ Returned("query")
    /\ result
    /\ \E p \in Mines : ~cells[p].is_revealed /\ cells[p].is_flagged
    /\ Cardinality(Pos) >= 3

\* C8: Minefield.reveal(pos) on a hidden, unflagged mine reveals that cell with
\* the mine symbol, changes no other cell, and leaves the value of the win
\* predicate as it was.
C8_MineRevealTouchesOneCell ==
    (/\ Returned("reveal")
     /\ pre[op.pos].is_mine
     /\ ~pre[op.pos].is_revealed
     /\ ~pre[op.pos].is_flagged)
    => /\ cells = [pre EXCEPT ![op.pos].is_revealed = TRUE, ![op.pos].symbol = SYM_MINE]
       /\ all_cells_revealed_except_mines(cells) = all_cells_revealed_except_mines(pre)

\* A mine without mine neighbours was revealed beside hidden cells and beside a
\* revealed cell whose chord was ready to fire.
C8_Witness ==
    /\ Returned("reveal")
    /\ pre[op.pos].is_mine
    /\ ~pre[op.pos].is_revealed
    /\ ~pre[op.pos].is_flagged
    /\ cells[op.pos].is_revealed
    /\ \E n \in NeighbourSet(op.pos) : ~cells[n].is_revealed /\ ~cells[n].is_flagged
    /\ \E n \in NeighbourSet(op.pos) : pre[n].is_revealed /\ ChordFires(pre, n)

\* C9: Minefield.reveal(pos) on a flagged cell changes no cell.
C9_RevealOnFlaggedIsNoOp ==
    (Returned("reveal") /\ pre[op.pos].is_flagged) => cells = pre

\* Reveal was called on a flagged cell without mine neighbours that has a
\* hidden, unflagged neighbour.
C9_Witness ==
    /\ Returned("reveal")
    /\ pre[op.pos].is_flagged
    /\ ~pre[op.pos].is_mine
    /\ MineCount(pre, op.pos) = 0
    /\ \E n \in NeighbourSet(op.pos) : ~pre[n].is_revealed /\ ~pre[n].is_flagged

\* C10: on a hidden cell, a second Minefield.flag(pos) right after the first
\* restores the grid that held before the first.
C10_FlagTwiceRestores ==
    [][(/\ Returned("flag")
        /\ ~pre[op.pos].is_revealed
        /\ op'.name = "flag" /\ op'.pos = op.pos /\ op'.repeat)
       => cells' = pre]_vars

\* The second of two flags in a row on a hidden cell that started flagged has
\* returned, on a board with a revealed cell.
C10_Witness ==
    /\ Returned("flag")
    /\ op.repeat
    /\ ~cells[op.pos].is_revealed
    /\ cells[op.pos].is_flagged
    /\ ~pre[op.pos].is_flagged
    /\ Revealed(cells) # {}

\* C11: Minefield.flag(pos) changes is_revealed and clicked_auto_reveal of no
\* cell and no field of a cell other than the one at pos; on a revealed cell it
\* changes nothing at all.
C11_FlagFrame ==
    Returned("flag")
    => /\ \A q \in Pos :
             /\ cells[q].is_revealed = pre[q].is_revealed
             /\ cells[q].clicked_auto_reveal = pre[q].clicked_auto_reveal
             /\ cells[q].is_mine = pre[q].is_mine
             /\ q # op.pos => cells[q] = pre[q]
       /\ pre[op.pos].is_revealed => cells = pre

\* Flag was called on a revealed cell of a board that has a flagged cell and a
\* hidden unflagged one.
C11_Witness ==
    /\ Returned("flag")
    /\ pre[op.pos].is_revealed
    /\ Flagged(cells) # {}
    /\ \E q \in Pos : ~cells[q].is_revealed /\ ~cells[q].is_flagged

\* C12: a Minefield.reveal(pos) that follows at once a Minefield.reveal(pos)
\* made on an already-revealed cell leaves the grid unchanged; it stops at the
\* guard of pos, so Cell.reveal is entered for no other cell.
C12_RepeatedChordIsNoOp ==
    (Returned("reveal") /\ op.repeat)
    => /\ cells = pre
       /\ \A q \in Pos \ {op.pos} : entered[q] = 0

\* The repeated reveal was made on a numbered cell whose chord has fired and
\* whose flagged-neighbour count still equals its mine count, beside a revealed
\* neighbour.
C12_Witness ==
    /\ Returned("reveal")
    /\ op.repeat
    /\ cells[op.pos].clicked_auto_reveal
    /\ MineCount(cells, op.pos) >= 1
    /\ MineCount(cells, op.pos) = FlaggedCount(cells, op.pos)
    /\ \E n \in NeighbourSet(op.pos) : cells[n].is_revealed

\* C13: once a cell is revealed it stays revealed, through every step of the
\* game: moves of the cursor, flags, reveals and the final reveal_all.
C13_RevealedIsTerminal ==
    [][pc # "place"
       => \A p \in Pos : cells[p].is_revealed => cells'[p].is_revealed]_vars

\* The game is over on a board with a revealed cell, a flagged cell, and the
\* cursor moved away from the corner.
C13_Witness ==
    /\ pc = "done"
    /\ Revealed(pre) # {}
    /\ Flagged(cells) # {}
    /\ cursor_position # <<0, 0>>

\* C14: a construction with 0 <= num_mines <= width * height places distinct
\* positions and yields a grid with exactly num_mines mine cells, and the
\* number of mine cells is the same in every later state of the game.
C14_MineCountIsNumMines ==
    IF pc = "place"
    THEN Cardinality(Range(mine_positions)) = Len(mine_positions)
    ELSE Cardinality({p \in Pos : cells[p].is_mine}) = num_mines

\* A game on a grid built with two mines has ended after a reveal.
C14_Witness ==
    /\ pc = "done"
    /\ num_mines = 2
    /\ Cardinality({p \in Pos : cells[p].is_mine}) = 2
    /\ Revealed(pre) # {}

\* C15: the construction of a Minefield with num_mines greater than
\* width * height ends in an error outcome, without a grid.
C15_TooManyMinesRejected ==
    (pc = "place" /\ num_mines > width * height) ~> (pc = "error")

\* C16: within one top-level Minefield.reveal(pos), Cell.reveal passes the
\* flagged guard at most once for every cell.
C16_EachCellEnteredOnce ==
    op.name = "reveal" => \A p \in Pos : entered[p] <= 1

\* C17: during a top-level Minefield.reveal(pos) the number of active
\* Cell.reveal frames never exceeds width * height.
C17_DepthWithinCells ==
    mode = "reveal" => Len(stack) <= width * height

\* C18: during Minefield.reveal(pos) clicked_auto_reveal changes for no cell
\* other than the one at pos, and during Minefield.reveal_all() for no cell.
C18_ChordOnlyByRetargeting ==
    /\ op.name = "reveal"
       => \A q \in Pos \ {op.pos} :
             cells[q].clicked_auto_reveal = pre[q].clicked_auto_reveal
    /\ op.name = "reveal_all"
       => \A q \in Pos : cells[q].clicked_auto_reveal = pre[q].clicked_auto_reveal

\* C19: when every flagged cell is a mine, Minefield.reveal(pos) on a cell
\* that is no mine reveals no mine, at any point of the call and at its return.
C19_SoundFlagsRevealNoMine ==
    (/\ op.name = "reveal"
     /\ ~pre[op.pos].is_mine
     /\ \A f \in Flagged(pre) : pre[f].is_mine)
    => \A q \in Pos : (cells[q].is_mine /\ cells[q].is_revealed) => pre[q].is_revealed

\* A chord on a revealed numbered cell, with a flag on the mine, has revealed
\* further cells and has returned.
C19_Witness ==
    /\ Returned("reveal")
    /\ ~pre[op.pos].is_mine
    /\ pre[op.pos].is_revealed
    /\ Flagged(pre) # {}
    /\ \A f \in Flagged(pre) : pre[f].is_mine
    /\ Revealed(cells) # Revealed(pre)

\* The symbol that belongs to the state of the cell at p.
SymbolOf(cs, p) ==
    IF cs[p].is_flagged THEN SYM_FLAGGED
    ELSE IF ~cs[p].is_revealed THEN SYM_UNREVEALED
    ELSE IF cs[p].is_mine THEN SYM_MINE
    ELSE LET mine_count == MineCount(cs, p)
         IN IF mine_count = 0 THEN SYM_EMPTY ELSE Str(mine_count)

\* C20: in every state the symbol of each cell is the one its state
\* determines: '%' hidden and unflagged, 'X' flagged, '*' revealed mine,
\* the count of mine neighbours or ' ' for a revealed cell that is no mine;
\* and no cell is flagged and revealed at once.
C20_SymbolDeterminedByState ==
    \A p \in Pos :
        /\ cells[p].symbol = SymbolOf(cells, p)
        /\ ~(cells[p].is_flagged /\ cells[p].is_revealed)

\* A board at rest that shows a revealed mine, a flag, a digit and a blank.
C20_Witness ==
    /\ Idle
    /\ \E p \in Pos : cells[p].symbol = SYM_MINE /\ cells[p].is_revealed
    /\ \E p \in Pos : cells[p].symbol = SYM_FLAGGED
    /\ \E p \in Pos : cells[p].symbol = Str(1) /\ cells[p].is_revealed
    /\ \E p \in Pos : cells[p].symbol = SYM_EMPTY

====
